---------------------------- MODULE Spec2Model ----------------------------
(***************************************************************************)
(* A model of pylacrossegateway: the LaCrosseGateway session (socket,      *)
(* background refresh thread, callback registry) and the LaCrosseSensor    *)
(* and info-line decoders.                                                 *)
(*                                                                         *)
(* Text is modelled character by character: a str (and the ASCII bytes it  *)
(* is decoded from) is a sequence of one-character strings, so that the    *)
(* regular expressions, split(), strip(), int() and the format specs of    *)
(* the source are computed rather than assumed.  A Python value that may   *)
(* be None is a sequence of length 0 (None) or 1 (the value), unless it is *)
(* a plain string, where the string "None" stands for None.                *)
(***************************************************************************)
EXTENDS Integers, Sequences, FiniteSets, TLC

VARIABLES
    live,            \* the LaCrosseGateway objects that have been constructed
    sensors,         \* class attribute LaCrosseGateway.sensors (one dict)
    _registry,       \* class attribute LaCrosseGateway._registry (one dict)
    _callback,       \* self._callback, per object
    _callback_data,  \* self._callback_data, per object
    _socket,         \* self._socket, per object: "None", "open", "closed"
    _stopevent,      \* self._stopevent, per object: "None", "clear", "set"
    _thread,         \* self._thread, per object: "None" or a thread id
    worker,          \* the threading.Thread objects: position and locals
    wire,            \* per connection: segments sent by the gateway, unread
    peer,            \* per connection: "up", "closed" (FIN) or "reset"
    nsegs,           \* per object: segments the gateway has sent to it so far
    sent,            \* per connection: what sendall() has written so far
    cpc,             \* the caller's thread: position
    cself,           \* the caller's thread: the object of the call in progress
    cx,              \* the caller's thread: get_info's loop variable x
    carg,            \* the caller's thread: a local of the call in progress
    cret,            \* the caller's thread: what get_info last returned
    installs,        \* history: callbacks passed to register_all, in order
    regs,            \* history: the calls of register_callback, in order
    pin,             \* decoder harness: the input line
    pout             \* decoder harness: the outcome of decoding pin

svars == <<live, sensors, _registry, _callback, _callback_data, _socket,
           _stopevent, _thread, worker, wire, peer, nsegs, sent>>
cvars == <<cpc, cself, cx, carg, cret>>
pvars == <<pin, pout>>
hvars == <<installs, regs>>
vars == <<svars, cvars, hvars, pvars>>

-----------------------------------------------------------------------------
(* Characters and the character classes of Python's re module (ASCII).      *)

Digits == <<"0", "1", "2", "3", "4", "5", "6", "7", "8", "9">>
HexChars == Digits \o <<"A", "B", "C", "D", "E", "F">>
DigitSet == {Digits[i] : i \in 1..10}
Letters ==
    {"a", "b", "c", "d", "e", "f", "g", "h", "i", "j", "k", "l", "m", "n",
     "o", "p", "q", "r", "s", "t", "u", "v", "w", "x", "y", "z",
     "A", "B", "C", "D", "E", "F", "G", "H", "I", "J", "K", "L", "M", "N",
     "O", "P", "Q", "R", "S", "T", "U", "V", "W", "X", "Y", "Z"}
WordSet == Letters \cup DigitSet \cup {"_"}

\* Whether character c belongs to the class: \d, \w or . (anything but \n).
InClass(cls, c) ==
    CASE cls = "d" -> c \in DigitSet
      [] cls = "w" -> c \in WordSet
      [] cls = "." -> c # "\n"

DigitVal(c) == CHOOSE i \in 0..9 : Digits[i + 1] = c

\* F(x), with x evaluated once and F applied to its value.
Apply(F(_), x) == CHOOSE r \in {F(v) : v \in {x}} : TRUE

\* int(str) of a string of decimal digits.
RECURSIVE int(_)
int(s) ==
    IF s = <<>> THEN 0
    ELSE 10 * Apply(int, SubSeq(s, 1, Len(s) - 1)) + DigitVal(s[Len(s)])

\* '{}'.format(n) of a natural number: its decimal digits.
RECURSIVE str(_)
str(n) ==
    IF n < 10 THEN <<Digits[n + 1]>>
    ELSE str(n \div 10) \o <<Digits[(n % 10) + 1]>>

\* The digits of n in base 16, upper case, most significant first.
RECURSIVE HexDigits(_)
HexDigits(n) ==
    IF n < 16 THEN <<HexChars[n + 1]>>
    ELSE HexDigits(n \div 16) \o <<HexChars[(n % 16) + 1]>>

\* f'{i:02X}': upper-case hex, zero-padded to a minimum width of 2.
Format02X(i) ==
    LET h == HexDigits(i) IN IF Len(h) < 2 THEN <<"0">> \o h ELSE h

\* str.strip(chars): drop leading and trailing characters that are in chars.
RECURSIVE lstrip(_, _)
lstrip(s, chars) ==
    IF s # <<>> /\ Head(s) \in chars THEN lstrip(Tail(s), chars) ELSE s
RECURSIVE rstrip(_, _)
rstrip(s, chars) ==
    IF s # <<>> /\ s[Len(s)] \in chars
    THEN rstrip(SubSeq(s, 1, Len(s) - 1), chars) ELSE s
strip(s, chars) == rstrip(lstrip(s, chars), chars)

\* str.split(sep) for a one-character separator: the pieces between
\* separators, empty pieces kept.
RECURSIVE split(_, _)
split(s, sep) ==
    IF \A i \in 1..Len(s) : s[i] # sep THEN <<s>>
    ELSE LET i == CHOOSE k \in 1..Len(s) :
                      s[k] = sep /\ \A j \in 1..(k - 1) : s[j] # sep
         IN  <<SubSeq(s, 1, i - 1)>>
                 \o Apply(LAMBDA rest : split(rest, sep),
                          SubSeq(s, i + 1, Len(s)))

\* Length of the longest run of characters of class cls starting at p.
Run(line, p, cls) ==
    CHOOSE n \in 0..(Len(line) + 1 - p) :
        /\ \A j \in 0..(n - 1) : InClass(cls, line[p + j])
        /\ p + n > Len(line) \/ ~InClass(cls, line[p + n])

-----------------------------------------------------------------------------
(* A backtracking matcher for the regular expressions of the source.  A    *)
(* pattern is a sequence of items: a literal text, one character of a      *)
(* class, or a greedy repetition (+ or * ) of a class.  Match(pat, line)   *)
(* is what re.match does: anchored at the start, and of the ways to match  *)
(* the one that backtracking finds first, which gives every repetition, in *)
(* pattern order, the longest run that lets the rest match.  It yields     *)
(* <<>> for no match, else the start position of every item followed by    *)
(* the position after the match.                                           *)

Lit(s) == [k |-> "lit", s |-> s, cls |-> "."]
One(cls) == [k |-> "one", s |-> <<>>, cls |-> cls]
Plus(cls) == [k |-> "plus", s |-> <<>>, cls |-> cls]
Star(cls) == [k |-> "star", s |-> <<>>, cls |-> cls]

RECURSIVE MatchFrom(_, _, _, _)
MatchFrom(pat, i, line, p) ==
    IF i > Len(pat) THEN <<p>>
    ELSE LET it == pat[i]
             least == IF it.k = "plus" THEN 1 ELSE 0
             \* the lengths this item may take, by kind
             lens == CASE it.k = "lit" ->
                            IF /\ p + Len(it.s) - 1 <= Len(line)
                               /\ SubSeq(line, p, p + Len(it.s) - 1) = it.s
                            THEN {Len(it.s)} ELSE {}
                       [] it.k = "one" ->
                            IF p <= Len(line) /\ InClass(it.cls, line[p])
                            THEN {1} ELSE {}
                       [] OTHER -> least..Run(line, p, it.cls)
             \* the rest of the pattern, tried after each length
             rest == {<<n, MatchFrom(pat, i + 1, line, p + n)>> : n \in lens}
             good == {r \in rest : r[2] # <<>>}
             best == CHOOSE r \in good : \A q \in good : q[1] <= r[1]
         IN  IF good = {} THEN <<>> ELSE <<p>> \o best[2]

Match(pat, line) == MatchFrom(pat, 1, line, 1)

\* The text of the items first..last of a match m (a capture group).
Group(line, m, first, last) == SubSeq(line, m[first], m[last + 1] - 1)

-----------------------------------------------------------------------------
(* LaCrosseSensor: the telemetry line and its decoding.                     *)

None == <<>>
Some(v) == <<v>>

\* LaCrosseSensor.re_reading: r'OK (\d+) (\d+) ... (\d+)' has 21 groups.
ReadingGroups == 21

\* Position after n groups ' (\d+)' starting at p, or 0 when they are not
\* there.  A run of digits is followed in the pattern by a blank or by the
\* end of the pattern, and a digit is not a blank, so the only match is the
\* one that gives every group its longest run: no backtracking is needed.
RECURSIVE Numbers(_, _, _)
Numbers(line, p, n) ==
    IF n = 0 THEN p
    ELSE IF p <= Len(line) /\ line[p] = " " /\ Run(line, p + 1, "d") >= 1
         THEN Apply(LAMBDA q : Numbers(line, q, n - 1),
                    p + 1 + Run(line, p + 1, "d"))
         ELSE 0

\* re_reading.match(line): the position after the match, 0 for no match.
re_reading(line) ==
    IF Len(line) >= 2 /\ SubSeq(line, 1, 2) = <<"O", "K">>
    THEN Numbers(line, 3, ReadingGroups) ELSE 0

RECURSIVE Ints(_)
Ints(toks) ==
    IF toks = <<>> THEN <<>>
    ELSE <<Apply(int, Head(toks))>> \o Apply(Ints, Tail(toks))

\* Python integers are unbounded and the model's are 32-bit, so the sum
\*   data[i]*16777216 + data[i+1]*65536 + data[i+2]*256 + data[i+3]
\* is kept as two limbs, hi*65536 + lo with 0 <= lo < 65536: the value is
\* below 2^32 exactly when hi < 65536.
U32(data, i) ==
    LET upper == (data[i] * 256) + data[i + 1]
        lower == (data[i + 2] * 256) + data[i + 3]
    IN  [hi |-> upper + (lower \div 65536), lo |-> lower % 65536]
U16(data, i) == (data[i] * 256) + data[i + 1]

\* The two id fields, each formatted with 02X, joined.
SensorId(hi, lo) == Format02X(hi) \o Format02X(lo)

\* LaCrosseSensor._parse: None when the line does not match (no attribute
\* is set), else the attributes.  match.group() is the matched text, whose
\* fields are separated by single blanks; data[i] of the source is data[i+1].
Attributes(data) ==
    [sensortype |-> data[1],
     sensorid   |-> SensorId(data[2], data[3]),
     ontime     |-> U32(data, 4),
     totaltime  |-> U32(data, 8),
     energy     |-> U32(data, 12),
     power      |-> U16(data, 16),
     maxpower   |-> U16(data, 18),
     resets     |-> data[20]]

group(line, m) == SubSeq(line, 1, m - 1)

_parse(line) ==
    Apply(LAMBDA m :
            IF m = 0 THEN None
            ELSE Some(Apply(Attributes,
                            Ints(Tail(Apply(LAMBDA text : split(text, " "),
                                            group(line, m)))))),
          re_reading(line))

\* LaCrosseSensor(line): __init__ parses a non-empty line.
LaCrosseSensor(line) == IF line # <<>> THEN _parse(line) ELSE None

-----------------------------------------------------------------------------
(* LaCrosseGateway._parse_info and the bracket test of get_info.            *)

\* r'\[(?P<name>\w+\.\w+).(?P<ver>.*) \(1=(?P<rfm1name>\w+) (\w+):'
\* r'(?P<rfm1freq>\d+) (?P<rfm1mode>.*)\) {IP=(?P<address>.*)}\]'
re_info ==
    <<Lit(<<"[">>), Plus("w"), Lit(<<".">>), Plus("w"), One("."), Star("."),
      Lit(<<" ", "(", "1", "=">>), Plus("w"), Lit(<<" ">>), Plus("w"),
      Lit(<<":">>), Plus("d"), Lit(<<" ">>), Star("."),
      Lit(<<")", " ", "{", "I", "P", "=">>), Star("."), Lit(<<"}", "]">>)>>

\* get_info's r'\[.*\]'.
re_bracket == <<Lit(<<"[">>), Star("."), Lit(<<"]">>)>>

NoInfo ==
    [name |-> None, version |-> None, address |-> None, rfm1name |-> None,
     rfm1frequency |-> None, rfm1datarate |-> None,
     rfm1toggleinterval |-> None, rfm1togglemask |-> None]

\* The mode branch of _parse_info: sets the data rate or the two toggle
\* fields; indexing a split() result past its end raises IndexError.
ParseMode(info, mode) ==
    LET values == split(mode, ":") IN
    IF values[1] = <<"r">>
    THEN IF Len(values) < 2 THEN [raised |-> TRUE, info |-> NoInfo]
         ELSE [raised |-> FALSE,
               info |-> [info EXCEPT !.rfm1datarate = Some(values[2])]]
    ELSE IF values[1] = <<"t">>
    THEN IF Len(values) < 2 THEN [raised |-> TRUE, info |-> NoInfo]
         ELSE LET toggle == split(values[2], "~") IN
              IF Len(toggle) < 2 THEN [raised |-> TRUE, info |-> NoInfo]
              ELSE [raised |-> FALSE,
                    info |-> [info EXCEPT
                                !.rfm1toggleinterval = Some(toggle[1]),
                                !.rfm1togglemask = Some(toggle[2])]]
    ELSE [raised |-> FALSE, info |-> info]

\* _parse_info(line): the dict it returns, or raised = TRUE for IndexError.
_parse_info(line) ==
    LET m == Match(re_info, line) IN
    IF m = <<>> THEN [raised |-> FALSE, info |-> NoInfo]
    ELSE ParseMode([NoInfo EXCEPT
                      !.name = Some(Group(line, m, 2, 4)),
                      !.version = Some(Group(line, m, 6, 6)),
                      !.address = Some(Group(line, m, 16, 16)),
                      !.rfm1name = Some(Group(line, m, 8, 8)),
                      !.rfm1frequency = Some(Group(line, m, 12, 12))],
                   Group(line, m, 14, 14))

-----------------------------------------------------------------------------
(* The objects, the threads and the inputs of the model.                    *)

Sessions == {"g1", "g2"}     \* LaCrosseGateway objects
Tids == {"t1", "t2"}         \* threading.Thread objects

MaxSegs == 2        \* segments the gateway sends to one object
MaxRegs == 2        \* calls of register_callback and register_all
MaxCmds == 2        \* commands written on one connection

CRLF == <<"\r", "\n">>

\* A telemetry line as the gateway prints it: 'OK' and the fields in decimal.
RECURSIVE Telemetry(_)
Telemetry(fields) ==
    IF fields = <<>> THEN <<"O", "K">>
    ELSE Telemetry(SubSeq(fields, 1, Len(fields) - 1))
             \o <<" ">> \o str(fields[Len(fields)])

LineA == Telemetry(<<22, 9, 248, 0, 0, 0, 1, 0, 0, 0, 2, 0, 0, 0, 3, 0, 4, 0, 5, 1, 0>>)
LineB == Telemetry(<<22, 0, 1, 0, 0, 1, 0, 0, 0, 0, 7, 0, 0, 0, 9, 1, 0, 1, 1, 2, 0>>)
LineInfo ==
    <<"[", "a", ".", "b", ".", "1", " ", "(", "1", "=", "R", " ", "f", ":",
      "8", " ", "r", ":", "8", ")", " ", "{", "I", "P", "=", "1", "}", "]">>
LineOld ==
    <<"[", "a", ".", "1", "0", ".", "1", "s", " ", "(", "R", " ", "f", ":",
      "0", " ", "r", ":", "8", ")", "]">>

\* What the gateway may send in one segment: a line and its terminator.
Segments == {LineA \o CRLF, LineB \o CRLF, LineInfo \o CRLF}

\* The sensor ids and the listeners the caller registers.
SensorIds == {SensorId(9, 248), SensorId(0, 1)}
\* The caller passes a new callback and user data in every registration:
\* the k-th per-id listener and the k-th catch-all listener.
Listener(k) == [cb |-> <<"on", k>>, ud |-> <<"ud", k>>]
AllListener(k) == [cb |-> <<"all", k>>, ud |-> <<"all_ud", k>>]

RECURSIVE Concat(_)
Concat(segs) == IF segs = <<>> THEN <<>> ELSE Head(segs) \o Concat(Tail(segs))

\* A thread that has not been created.
NoThread ==
    [pc |-> "new", self |-> "None", line |-> <<>>, sensor |-> None,
     fn |-> None, gen |-> 0, i |-> 0, calls |-> <<>>, nreg |-> 0,
     ninst |-> 0, tested |-> None, lreads |-> 0, ldisp |-> 0]

\* The state right after the objects in objs have been constructed: the
\* class attributes are the empty dicts and None, __init__ sets
\* _callback_data.
InitObjects(objs) ==
    /\ live = objs
    /\ sensors = <<>>
    /\ _registry = <<>>
    /\ _callback = [s \in Sessions |-> None]
    /\ _callback_data = [s \in Sessions |-> None]
    /\ _socket = [s \in Sessions |-> "None"]
    /\ _stopevent = [s \in Sessions |-> "None"]
    /\ _thread = [s \in Sessions |-> "None"]
    /\ worker = [t \in Tids |-> NoThread]
    /\ wire = [s \in Sessions |-> <<>>]
    /\ peer = [s \in Sessions |-> "up"]
    /\ nsegs = [s \in Sessions |-> 0]
    /\ sent = [s \in Sessions |-> <<>>]
    /\ cpc = "idle"
    /\ cself = "None"
    /\ cx = 0
    /\ carg = None
    /\ cret = None
    /\ installs = [s \in Sessions |-> <<>>]
    /\ regs = <<>>

\* pin and pout hold a line given to one of the two decoders on its own and
\* what the decoder made of it; the program's own runs leave them alone.
InitWith(objs) == InitObjects(objs) /\ pin = <<>> /\ pout = None

Init == InitWith({"g1"})

\* A store that keeps the value a key already has.
Put_keeping(dict, key, value) ==
    [k \in (DOMAIN dict) \cup {key} |->
        IF k \in DOMAIN dict THEN dict[k] ELSE value]

\* A dict as a function: the keys are its domain.
Put(dict, key, value) ==
    [k \in (DOMAIN dict) \cup {key} |-> IF k = key THEN value ELSE dict[k]]

Terminated(t) == worker[t].pc \in {"done", "raised"}
Running(t) == worker[t].pc \notin {"new", "done", "raised"}

-----------------------------------------------------------------------------
(* The caller's thread: the public methods of LaCrosseGateway.  A method    *)
(* that touches state shared with the refresh thread in several places is   *)
(* split at those places; cpc says where the call in progress stands.       *)

\* connect(): a new socket, connected to the gateway.  The model connects an
\* object that holds no open socket.
connect(s) ==
    /\ cpc = "idle" /\ s \in live
    /\ _socket[s] # "open"
    /\ _socket' = [_socket EXCEPT ![s] = "open"]
    /\ wire' = [wire EXCEPT ![s] = <<>>]
    /\ peer' = [peer EXCEPT ![s] = "up"]
    /\ sent' = [sent EXCEPT ![s] = <<>>]
    /\ UNCHANGED <<live, sensors, _registry, _callback, _callback_data,
                   _stopevent, _thread, worker, nsegs, cpc, cself, cx, carg, cret,
                   hvars, pvars>>

\* _start_worker() without the test of self._thread.
_start_worker_unguarded(s) ==
    LET t == CHOOSE u \in Tids : worker[u].pc = "new" IN
    /\ \E u \in Tids : worker[u].pc = "new"
    /\ _stopevent' = [_stopevent EXCEPT ![s] = "clear"]
    /\ _thread' = [_thread EXCEPT ![s] = t]
    /\ worker' = [worker EXCEPT ![t] = [NoThread EXCEPT
                                          !.pc = "loop", !.self = s]]
    /\ carg' = <<"started">>

\* _start_worker(): returns at once when a thread object is held; else a
\* new Event, a new Thread running _refresh, started.  carg tells the two
\* ways apart until start_scan has returned.
_start_worker(s) ==
    IF _thread[s] # "None"
    THEN /\ carg' = <<"return">>
         /\ UNCHANGED <<_stopevent, _thread, worker>>
    ELSE LET t == CHOOSE u \in Tids : worker[u].pc = "new" IN
            /\ \E u \in Tids : worker[u].pc = "new"
            /\ _stopevent' = [_stopevent EXCEPT ![s] = "clear"]
            /\ _thread' = [_thread EXCEPT ![s] = t]
            /\ worker' = [worker EXCEPT ![t] = [NoThread EXCEPT
                                                  !.pc = "loop", !.self = s]]
            /\ carg' = <<"started">>

\* start_scan()
start_scan(s) ==
    /\ cpc = "idle" /\ s \in live
    /\ _start_worker(s)
    /\ cpc' = "start_scan" /\ cself' = s
    /\ UNCHANGED <<live, sensors, _registry, _callback, _callback_data,
                   _socket, wire, peer, nsegs, sent, cx, cret, hvars,
                   pvars>>

\* start_scan() returns to the caller.
start_scan_return ==
    /\ cpc = "start_scan"
    /\ cpc' = "idle" /\ cself' = "None" /\ carg' = None
    /\ UNCHANGED <<svars, cx, cret, hvars, pvars>>

\* close(), first part: _stop_worker sets the event if there is one.
close_stop(s) ==
    /\ cpc = "idle" /\ s \in live
    /\ _stopevent' = [_stopevent EXCEPT
                        ![s] = IF @ = "None" THEN "None" ELSE "set"]
    /\ cpc' = "join" /\ cself' = s
    /\ UNCHANGED <<live, sensors, _registry, _callback, _callback_data,
                   _socket, _thread, worker, wire, peer, nsegs, sent, cx,
                   carg, cret, hvars, pvars>>

\* close(), second part: _stop_worker joins the thread if there is one;
\* join() returns once the thread has terminated.
close_join ==
    /\ cpc = "join"
    /\ _thread[cself] # "None" => Terminated(_thread[cself])
    /\ cpc' = "shut"
    /\ UNCHANGED <<svars, cself, cx, carg, cret, hvars, pvars>>

\* close(), last part: self._socket.close(); AttributeError when the object
\* was never connected.
close_socket ==
    /\ cpc = "shut"
    /\ _socket' = [_socket EXCEPT
                     ![cself] = IF @ = "None" THEN "None" ELSE "closed"]
    /\ cpc' = "idle" /\ cself' = "None"
    /\ UNCHANGED <<live, sensors, _registry, _callback, _callback_data,
                   _stopevent, _thread, worker, wire, peer, nsegs, sent,
                   cx, carg, cret, hvars, pvars>>

\* register_callback that starts a new list on every call.
Registered_replacing(registry, sensorid, callback, user_data) ==
    Put(registry, sensorid, <<[cb |-> callback, ud |-> user_data]>>)

\* The registry after register_callback: a new list for a new sensor id,
\* and the (callback, user_data) pair appended.
Registered(registry, sensorid, callback, user_data) ==
    IF sensorid \notin DOMAIN registry
    THEN Put(registry, sensorid, <<[cb |-> callback, ud |-> user_data]>>)
    ELSE Put(registry, sensorid,
             Append(registry[sensorid], [cb |-> callback, ud |-> user_data]))

\* The calls of register_callback and of register_all so far, for the
\* bound MaxRegs.
RECURSIVE SumLen(_, _)
SumLen(dict, keys) ==
    IF keys = {} THEN 0
    ELSE LET k == CHOOSE x \in keys : TRUE
         IN  Len(dict[k]) + SumLen(dict, keys \ {k})
RegCount == Len(regs) + SumLen(installs, Sessions)

\* register_callback(sensorid, callback, user_data)
register_callback(s, sensorid, callback, user_data) ==
    /\ cpc = "idle" /\ s \in live
    /\ RegCount < MaxRegs
    /\ _registry' = Registered(_registry, sensorid, callback, user_data)
    /\ regs' = Append(regs, [self |-> s, sensorid |-> sensorid,
                              cb |-> callback, ud |-> user_data])
    /\ UNCHANGED <<live, sensors, _callback, _callback_data, _socket,
                   _stopevent, _thread, worker, wire, peer, nsegs, sent,
                   cpc, cself, cx, carg, cret, installs, pvars>>

\* register_all that keeps a callback already installed.
Installed_keeping(old, callback) == IF old = None THEN callback ELSE old

\* The value register_all stores in self._callback.
Installed(old, callback) == callback

\* register_all(), first statement: self._callback = callback
register_all(s, callback) ==
    /\ cpc = "idle" /\ s \in live
    /\ RegCount < MaxRegs
    /\ _callback' = [_callback EXCEPT ![s] = Installed(@, callback.cb)]
    /\ installs' = [installs EXCEPT ![s] = Append(@, callback.cb)]
    /\ cpc' = "register_all" /\ cself' = s /\ carg' = callback.ud
    /\ UNCHANGED <<live, sensors, _registry, _callback_data, _socket,
                   _stopevent, _thread, worker, wire, peer, nsegs, sent,
                   cx, cret, regs, pvars>>

\* register_all(), second statement: self._callback_data = user_data
register_all_data ==
    /\ cpc = "register_all"
    /\ _callback_data' = [_callback_data EXCEPT ![cself] = carg]
    /\ cpc' = "idle" /\ cself' = "None" /\ carg' = None
    /\ UNCHANGED <<live, sensors, _registry, _callback, _socket,
                   _stopevent, _thread, worker, wire, peer, nsegs, sent,
                   cx, cret, hvars, pvars>>

-----------------------------------------------------------------------------
(* The gateway: the other end of a connection.  It sends segments, which    *)
(* recv(1024) hands over one or several at a time, closes the connection    *)
(* (recv then returns b'' once the data is read) or resets it (recv then    *)
(* raises).                                                                 *)

GatewaySend(s, seg) ==
    /\ _socket[s] = "open" /\ peer[s] = "up"
    /\ nsegs[s] < MaxSegs
    /\ wire' = [wire EXCEPT ![s] = Append(@, seg)]
    /\ nsegs' = [nsegs EXCEPT ![s] = @ + 1]
    /\ UNCHANGED <<live, sensors, _registry, _callback, _callback_data,
                   _socket, _stopevent, _thread, worker, peer, sent, cvars,
                   hvars, pvars>>

GatewayClose(s) ==
    /\ _socket[s] = "open" /\ peer[s] = "up"
    /\ peer' = [peer EXCEPT ![s] = "closed"]
    /\ UNCHANGED <<live, sensors, _registry, _callback, _callback_data,
                   _socket, _stopevent, _thread, worker, wire, nsegs, sent,
                   cvars, hvars, pvars>>

GatewayReset(s) ==
    /\ _socket[s] = "open" /\ peer[s] = "up"
    /\ peer' = [peer EXCEPT ![s] = "reset"]
    /\ wire' = [wire EXCEPT ![s] = <<>>]
    /\ UNCHANGED <<live, sensors, _registry, _callback, _callback_data,
                   _socket, _stopevent, _thread, worker, nsegs, sent,
                   cvars, hvars, pvars>>

\* recv(1024) uses a buffer of this many bytes.
BufSize == 1024

\* What self._socket.recv(1024) can return on the connection of s, each
\* with the data it leaves unread: the first segments (as many as have
\* arrived and fit the buffer), or b'' at the end of a closed stream.  The
\* empty set: recv blocks.
Recv(s) ==
    {<<Concat(SubSeq(wire[s], 1, k)), SubSeq(wire[s], k + 1, Len(wire[s]))>> :
        k \in {j \in 1..Len(wire[s]) :
                  Len(Concat(SubSeq(wire[s], 1, j))) <= BufSize}}
    \cup (IF wire[s] = <<>> /\ peer[s] = "closed" THEN {<<<<>>, <<>>>>} ELSE {})

\* Whether recv raises: no socket object, a closed socket, a reset connection.
RecvRaises(s) == _socket[s] # "open" \/ peer[s] = "reset"

\* line.decode('utf-8').strip('\r\n') (bytes have no encode(), so the except
\* branch runs).  The bytes on the wire are ASCII, which UTF-8 decodes one
\* byte to one character.
Decoded(bytes) == strip(bytes, {"\r", "\n"})

-----------------------------------------------------------------------------
(* The refresh thread: _refresh, one action per access to state it shares   *)
(* with the caller's thread.  worker[t].calls records the listeners invoked *)
(* for the reading in hand; nreg and ninst record how many calls of         *)
(* register_callback and register_all had been made when the reading was    *)
(* taken in hand, gen how many when the catch-all callee was read, and      *)
(* tested the value of self._callback that the if statement found.  lreads  *)
(* and ldisp count the reads and the readings taken in hand while the stop  *)
(* event of the object was set, up to 2.                                    *)

Late(s, n) == IF _stopevent[s] = "set" /\ n < 2 THEN n + 1 ELSE n

\* A while loop that does not look at the stop event.
loop_test_blind(t) ==
    /\ worker[t].pc = "loop"
    /\ worker' = [worker EXCEPT
                    ![t] = [NoThread EXCEPT
                              !.self = worker[t].self,
                              !.lreads = worker[t].lreads,
                              !.ldisp = worker[t].ldisp,
                              !.pc = "recv"]]
    /\ UNCHANGED <<sensors, _registry, wire, _callback, _callback_data,
                   live, _socket, _stopevent, _thread, peer, nsegs, sent,
                   cvars, hvars, pvars>>

WUNCHANGED == <<live, _callback, _callback_data, _socket, _stopevent,
                _thread, peer, nsegs, sent, cvars, hvars, pvars>>

\* while not self._stopevent.isSet():
loop_test(t) ==
    /\ worker[t].pc = "loop"
    /\ worker' = [worker EXCEPT ![t] =
                    [NoThread EXCEPT
                       !.self = worker[t].self,
                       !.lreads = worker[t].lreads,
                       !.ldisp = worker[t].ldisp,
                       !.pc = IF _stopevent[worker[t].self] = "set"
                              THEN "done" ELSE "recv"]]
    /\ UNCHANGED <<sensors, _registry, wire, WUNCHANGED>>

\* line = self._socket.recv(1024), decoded and stripped
recv_line(t) ==
    LET s == worker[t].self IN
    /\ worker[t].pc = "recv"
    /\ ~RecvRaises(s)
    /\ \E r \in Recv(s) :
          /\ wire' = [wire EXCEPT ![s] = r[2]]
          /\ worker' = [worker EXCEPT ![t].pc = "match",
                                      ![t].line = Decoded(r[1]),
                                      ![t].lreads = Late(s, @)]
    /\ UNCHANGED <<sensors, _registry, WUNCHANGED>>

\* recv raises (AttributeError on None, OSError): nothing in _refresh
\* catches it, and the thread ends.
recv_raises(t) ==
    /\ worker[t].pc = "recv"
    /\ RecvRaises(worker[t].self)
    /\ worker' = [worker EXCEPT ![t].pc = "raised"]
    /\ UNCHANGED <<sensors, _registry, wire, WUNCHANGED>>

\* _refresh that ends on a line that is not a reading.
match_line_strict(t) ==
    LET s == worker[t].self
        line == worker[t].line
    IN
    /\ worker[t].pc = "match"
    /\ IF re_reading(line) # 0
       THEN \E sensor \in {LaCrosseSensor(line)[1]} :
            /\ sensors' = Put(sensors, sensor.sensorid, sensor)
            /\ worker' = [worker EXCEPT
                 ![t].pc = "cb_test",
                 ![t].sensor = Some(sensor),
                 ![t].calls = <<>>,
                 ![t].nreg = Len(regs),
                 ![t].ninst = Len(installs[s]),
                 ![t].ldisp = Late(s, @)]
       ELSE /\ worker' = [worker EXCEPT ![t].pc = "raised"]
            /\ UNCHANGED sensors
    /\ UNCHANGED <<_registry, wire, WUNCHANGED>>

\* if LaCrosseSensor.re_reading.match(line): sensor = LaCrosseSensor(line);
\* self.sensors[sensor.sensorid] = sensor
match_line(t) ==
    LET s == worker[t].self
        line == worker[t].line
    IN
    /\ worker[t].pc = "match"
    /\ IF re_reading(line) # 0
       THEN \E sensor \in {LaCrosseSensor(line)[1]} :
            /\ sensors' = Put(sensors, sensor.sensorid, sensor)
            /\ worker' = [worker EXCEPT
                 ![t].pc = "cb_test",
                 ![t].sensor = Some(sensor),
                 ![t].calls = <<>>,
                 ![t].nreg = Len(regs),
                 ![t].ninst = Len(installs[s]),
                 ![t].ldisp = Late(s, @)]
       ELSE /\ worker' = [worker EXCEPT ![t].pc = "loop"]
            /\ UNCHANGED sensors
    /\ UNCHANGED <<_registry, wire, WUNCHANGED>>

\* if self._callback:
callback_test(t) ==
    /\ worker[t].pc = "cb_test"
    /\ worker' = [worker EXCEPT
                    ![t].pc = IF _callback[worker[t].self] # None
                              THEN "cb_load" ELSE "reg_test",
                    ![t].tested = _callback[worker[t].self]]
    /\ UNCHANGED <<sensors, _registry, wire, WUNCHANGED>>

\* self._callback(...): the callee is evaluated first
callback_load(t) ==
    /\ worker[t].pc = "cb_load"
    /\ worker' = [worker EXCEPT ![t].pc = "cb_call",
                                ![t].fn = _callback[worker[t].self],
                                ![t].gen = Len(installs[worker[t].self])]
    /\ UNCHANGED <<sensors, _registry, wire, WUNCHANGED>>

\* The invocations of the catch-all listener for one reading.
CallAll(fn, sensor, data, gen) ==
    <<[kind |-> "all", cb |-> fn, ud |-> data, sensor |-> sensor, gen |-> gen]>>


\* (sensor, self._callback_data): the arguments are evaluated, then the call
callback_call(t) ==
    /\ worker[t].pc = "cb_call"
    /\ worker' = [worker EXCEPT
                    ![t].pc = "reg_test",
                    ![t].fn = None,
                    ![t].gen = 0,
                    ![t].calls = @ \o CallAll(worker[t].fn, worker[t].sensor[1],
                                              _callback_data[worker[t].self],
                                              worker[t].gen)]
    /\ UNCHANGED <<sensors, _registry, wire, WUNCHANGED>>

\* if sensor.sensorid in self._registry:
registry_test(t) ==
    /\ worker[t].pc = "reg_test"
    /\ worker' = [worker EXCEPT
                    ![t].pc = IF worker[t].sensor[1].sensorid \in DOMAIN _registry
                              THEN "reg_iter" ELSE "loop",
                    ![t].i = 1]
    /\ UNCHANGED <<sensors, _registry, wire, WUNCHANGED>>

\* The element the list iterator yields at index i (from 1), None at the end.
IterNext(list, i) == IF i <= Len(list) THEN Some(list[i]) ELSE None

\* for cbs in self._registry[sensor.sensorid]: cbs[0](sensor, cbs[1])
registry_iter(t) ==
    LET sensor == worker[t].sensor[1]
        cbs == IterNext(_registry[sensor.sensorid], worker[t].i)
    IN
    /\ worker[t].pc = "reg_iter"
    /\ IF cbs # None
       THEN worker' = [worker EXCEPT
                         ![t].i = @ + 1,
                         ![t].calls = Append(@, [kind |-> "id", cb |-> cbs[1].cb,
                                                 ud |-> cbs[1].ud,
                                                 sensor |-> sensor, gen |-> 0])]
       ELSE worker' = [worker EXCEPT ![t].pc = "loop", ![t].i = 0]
    /\ UNCHANGED <<sensors, _registry, wire, WUNCHANGED>>

WorkerStep(t) ==
    \/ loop_test(t)
    \/ recv_line(t)
    \/ recv_raises(t)
    \/ match_line(t)
    \/ callback_test(t)
    \/ callback_load(t)
    \/ callback_call(t)
    \/ registry_test(t)
    \/ registry_iter(t)

CallerStep ==
    \/ \E s \in Sessions : connect(s) \/ start_scan(s) \/ close_stop(s)
    \/ close_join
    \/ close_socket
    \/ start_scan_return
    \/ \E s \in Sessions, sid \in SensorIds :
          register_callback(s, sid, Listener(Len(regs) + 1).cb,
                            Listener(Len(regs) + 1).ud)
    \/ \E s \in Sessions :
          register_all(s, AllListener(Len(installs[s]) + 1))
    \/ register_all_data

GatewayStep ==
    \E s \in Sessions :
        \/ \E seg \in Segments : GatewaySend(s, seg)
        \/ GatewayClose(s)
        \/ GatewayReset(s)

Next == CallerStep \/ GatewayStep \/ \E t \in Tids : WorkerStep(t)

Spec == Init /\ [][Next]_vars

\* The refresh thread runs whenever it can; a call in progress on the
\* caller's thread runs on to its return.  Nothing obliges the caller to
\* make a call or the gateway to send.
CallInProgress ==
    close_join \/ close_socket \/ start_scan_return \/ register_all_data

FairSpec ==
    /\ Spec
    /\ \A t \in Tids : WF_vars(WorkerStep(t))
    /\ WF_vars(CallInProgress)

-----------------------------------------------------------------------------
(* The commands and get_info, on the caller's thread.  sent[s] is what has  *)
(* been written on the connection of s, one element per sendall.            *)

CUNCHANGED == <<live, sensors, _registry, _callback, _callback_data, _socket,
                _stopevent, _thread, worker, peer, nsegs, hvars, pvars>>

\* The values the caller passes to the set_ methods, and the flags to
\* led_mode_state.
Values == {0, 868300}
Flags == {FALSE, TRUE}

\* sendall succeeds on an open socket whose connection is not reset; on
\* None it raises AttributeError, else OSError.
Writable(s) == _socket[s] = "open" /\ peer[s] # "reset"

\* A method ends by raising.
Raised == Some([raised |-> TRUE, info |-> NoInfo])

\* _write_cmd without the terminator.
_write_cmd_bare(s, cmd) == sent' = [sent EXCEPT ![s] = Append(@, cmd)]

\* _write_cmd(cmd): self._socket.sendall((cmd + '\r\n').encode())
_write_cmd(s, cmd) == sent' = [sent EXCEPT ![s] = Append(@, cmd \o CRLF)]

\* A method that writes one command: it returns None, or raises when the
\* socket cannot be written.
Command(s, name, value, rfm, cmd) ==
    /\ cpc = "idle" /\ s \in live
    /\ cpc' = "command"
    /\ cself' = s
    /\ carg' = <<name, value, rfm>>
    /\ IF Writable(s)
       THEN /\ Len(sent[s]) < MaxCmds
            /\ _write_cmd(s, cmd)
            /\ cret' = None
       ELSE /\ cret' = Raised
            /\ UNCHANGED sent
    /\ UNCHANGED <<cx, wire, CUNCHANGED>>

\* The method has returned or raised to its caller.
command_return ==
    /\ cpc = "command"
    /\ cpc' = "idle"
    /\ carg' = None
    /\ UNCHANGED <<svars, cself, cx, cret, hvars, pvars>>

\* int(state) of a bool
IntOfBool(state) == IF state THEN 1 ELSE 0

\* led_mode_state(state): '{}a'.format(int(state))
led_mode_state(s, state) ==
    Command(s, "led_mode_state", IntOfBool(state), 1,
            str(IntOfBool(state)) \o <<"a">>)

\* The cmds dict of each set_ method.
frequency_cmds == (1 :> "f") @@ (2 :> "F")
datarate_cmds == (1 :> "r") @@ (2 :> "R")
toggle_interval_cmds == (1 :> "t") @@ (2 :> "T")
toggle_mask_cmds == (1 :> "m") @@ (2 :> "M")

\* set_frequency(frequency, rfm): '{}{}'.format(frequency, cmds[rfm])
set_frequency(s, frequency, rfm) ==
    Command(s, "set_frequency", frequency, rfm,
            str(frequency) \o <<frequency_cmds[rfm]>>)

\* set_datarate(rate, rfm)
set_datarate(s, rate, rfm) ==
    Command(s, "set_datarate", rate, rfm, str(rate) \o <<datarate_cmds[rfm]>>)

\* set_toggle_interval(interval, rfm)
set_toggle_interval(s, interval, rfm) ==
    Command(s, "set_toggle_interval", interval, rfm,
            str(interval) \o <<toggle_interval_cmds[rfm]>>)

\* set_toggle_mask(mode_mask, rfm)
set_toggle_mask(s, mode_mask, rfm) ==
    Command(s, "set_toggle_mask", mode_mask, rfm,
            str(mode_mask) \o <<toggle_mask_cmds[rfm]>>)

\* for x in range(10)
GetInfoReads == 10

\* get_info() is called.
get_info(s) ==
    /\ cpc = "idle" /\ s \in live
    /\ cpc' = "get_info_write"
    /\ cself' = s
    /\ cx' = 0
    /\ carg' = <<"get_info">>
    /\ cret' = None
    /\ UNCHANGED <<sent, wire, CUNCHANGED>>

\* while True: self._write_cmd('v')
get_info_write ==
    /\ cpc = "get_info_write"
    /\ IF Writable(cself)
       THEN /\ Len(sent[cself]) < MaxCmds
            /\ _write_cmd(cself, <<"v">>)
            /\ cpc' = "get_info_recv"
            /\ cx' = 0
            /\ UNCHANGED cret
       ELSE /\ cpc' = "idle"
            /\ cret' = Raised
            /\ UNCHANGED <<sent, cx>>
    /\ UNCHANGED <<cself, carg, wire, CUNCHANGED>>

\* line = self._socket.recv(1024), decoded and stripped; if the line
\* matches r'\[.*\]', return self._parse_info(line), else the next x, and
\* after the last x the command again.
get_info_recv ==
    /\ cpc = "get_info_recv"
    /\ IF RecvRaises(cself)
       THEN /\ cpc' = "idle"
            /\ cret' = Raised
            /\ UNCHANGED <<wire, cx>>
       ELSE \E r \in Recv(cself) : \E line \in {Decoded(r[1])} :
              /\ wire' = [wire EXCEPT ![cself] = r[2]]
              /\ IF Match(re_bracket, line) # <<>>
                 THEN \E result \in {_parse_info(line)} :
                        /\ cret' = Some(result)
                        /\ cpc' = IF result.raised THEN "idle"
                                  ELSE "get_info_return"
                        /\ UNCHANGED cx
                 ELSE /\ cx' = IF cx + 1 < GetInfoReads THEN cx + 1 ELSE cx
                      /\ cpc' = IF cx + 1 < GetInfoReads THEN "get_info_recv"
                                ELSE "get_info_write"
                      /\ UNCHANGED cret
    /\ UNCHANGED <<cself, carg, sent, CUNCHANGED>>

\* get_info has returned the dict to its caller.
get_info_return ==
    /\ cpc = "get_info_return"
    /\ cpc' = "idle"
    /\ UNCHANGED <<svars, cself, cx, carg, cret, hvars, pvars>>

\* What the gateway may send to a caller that configures it and asks for
\* its info: telemetry, an info line, an info line of the older firmware.
InfoSegments == {LineA \o CRLF, LineInfo \o CRLF, LineOld \o CRLF}

CommandStep ==
    \/ \E s \in Sessions : connect(s)
    \/ \E s \in Sessions, state \in Flags : led_mode_state(s, state)
    \/ \E s \in Sessions, n \in Values, rfm \in {1, 2} :
          \/ set_frequency(s, n, rfm)
          \/ set_datarate(s, n, rfm)
          \/ set_toggle_interval(s, n, rfm)
          \/ set_toggle_mask(s, n, rfm)
    \/ command_return
    \/ \E s \in Sessions : get_info(s)
    \/ get_info_write
    \/ get_info_recv
    \/ get_info_return

InfoGatewayStep ==
    \E s \in Sessions :
        \/ \E seg \in InfoSegments : GatewaySend(s, seg)
        \/ GatewayClose(s)
        \/ GatewayReset(s)

CmdNext == CommandStep \/ InfoGatewayStep

CmdSpec == Init /\ [][CmdNext]_vars

\* A gateway that relays two sensors, one of them with two different
\* readings.
LineC == Telemetry(<<22, 9, 248, 0, 0, 0, 6, 0, 0, 0, 7, 0, 0, 0, 8, 0, 9, 0, 9, 2, 0>>)
StoreSegments == {LineA \o CRLF, LineB \o CRLF, LineC \o CRLF}

StoreGatewayStep ==
    \E s \in Sessions :
        \/ \E seg \in StoreSegments : GatewaySend(s, seg)
        \/ GatewayReset(s)

\* The caller connects, starts the scan and registers listeners.
StoreCallerStep ==
    \/ \E s \in Sessions : connect(s) \/ start_scan(s)
    \/ start_scan_return
    \/ \E s \in Sessions, sid \in SensorIds :
          register_callback(s, sid, Listener(Len(regs) + 1).cb,
                            Listener(Len(regs) + 1).ud)
    \/ \E s \in Sessions :
          register_all(s, AllListener(Len(installs[s]) + 1))
    \/ register_all_data

StoreNext ==
    StoreCallerStep \/ StoreGatewayStep \/ \E t \in Tids : WorkerStep(t)

StoreSpec == Init /\ [][StoreNext]_vars

\* A program with two LaCrosseGateway objects: listeners are registered on
\* the first, the second is connected to a gateway and scans.
TwoInit == InitWith(Sessions)

\* self.sensors of object s: no object assigns the attribute, so the lookup
\* finds the dict of the class.
SensorsOf(s) == sensors

TwoCallerStep ==
    \/ connect("g2")
    \/ start_scan("g2")
    \/ start_scan_return
    \/ \E sid \in SensorIds :
          register_callback("g1", sid, Listener(Len(regs) + 1).cb,
                            Listener(Len(regs) + 1).ud)
    \/ \E s \in Sessions :
          register_all(s, AllListener(Len(installs[s]) + 1))
    \/ register_all_data

TwoGatewayStep ==
    \/ \E seg \in {LineA \o CRLF, LineB \o CRLF} : GatewaySend("g2", seg)
    \/ GatewayReset("g2")

TwoNext == TwoCallerStep \/ TwoGatewayStep \/ \E t \in Tids : WorkerStep(t)

TwoSpec == TwoInit /\ [][TwoNext]_vars

\* A program with two objects that both scan, each connected to a gateway
\* that relays the same sensor.
BothCallerStep ==
    \/ \E s \in Sessions : connect(s) \/ start_scan(s)
    \/ start_scan_return
    \/ register_callback("g1", SensorId(9, 248), Listener(Len(regs) + 1).cb,
                         Listener(Len(regs) + 1).ud)
    \/ register_all("g1", AllListener(Len(installs["g1"]) + 1))
    \/ register_all_data

BothGatewayStep ==
    \/ GatewaySend("g1", LineA \o CRLF)
    \/ GatewaySend("g2", LineC \o CRLF)

BothNext == BothCallerStep \/ BothGatewayStep \/ \E t \in Tids : WorkerStep(t)

BothSpec == TwoInit /\ [][BothNext]_vars

\* get_info on the caller's thread of a program that also scans.
GetInfoStep ==
    \/ \E s \in Sessions : get_info(s)
    \/ get_info_write
    \/ get_info_recv
    \/ get_info_return

ScanInfoNext == Next \/ GetInfoStep

ScanInfoSpec == Init /\ [][ScanInfoNext]_vars

-----------------------------------------------------------------------------
(* The two decoders on their own: LaCrosseSensor(line) and                  *)
(* _parse_info(line) applied to one line.                                   *)

\* Values of a field of a telemetry line: the ends of the byte range and
\* the first value past it.
FieldValues == {0, 255, 256}

\* The 21 fields of a telemetry line with the given id fields, first byte of
\* the on time and first byte of the power.
Fields(id1, id2, on0, power0) ==
    <<22, id1, id2, on0, 0, 0, 1, 0, 0, 0, 2, 0, 0, 0, 3, power0, 4, 0, 5,
      1, 0>>

\* An info line with the given mode text.
InfoLine(mode) ==
    <<"[", "a", ".", "b", ".", "1", " ", "(", "1", "=", "R", " ", "f", ":",
      "8", " ">> \o mode \o <<")", " ", "{", "I", "P", "=", "1", "}", "]">>

Modes ==
    {<<"r", ":", "8">>, <<"t", ":", "1", "0", "~", "3">>, <<"x", ":", "5">>,
     <<"r">>, <<"t", ":", "1", "0">>, <<>>}

ReadingLines ==
    {Telemetry(Fields(a, b, c, d)) :
        a \in FieldValues, b \in FieldValues, c \in FieldValues,
        d \in FieldValues}
    \cup {Telemetry(<<22, 9, 248>>)}

InfoLines == {InfoLine(mode) : mode \in Modes} \cup {LineOld}

ParseInit ==
    /\ InitObjects({"g1"})
    /\ pin \in ReadingLines \cup InfoLines
    /\ pout = None

\* sensor = LaCrosseSensor(line)
ParseReading ==
    /\ pout = None
    /\ pout' = Some([fn |-> "LaCrosseSensor", raised |-> FALSE,
                     reading |-> LaCrosseSensor(pin), info |-> NoInfo])
    /\ UNCHANGED <<svars, cvars, hvars, pin>>

\* info = self._parse_info(line)
ParseInfo ==
    /\ pout = None
    /\ \E result \in {_parse_info(pin)} :
          pout' = Some([fn |-> "_parse_info", raised |-> result.raised,
                        reading |-> None, info |-> result.info])
    /\ UNCHANGED <<svars, cvars, hvars, pin>>

ParseNext == ParseReading \/ ParseInfo

ParseSpec == ParseInit /\ [][ParseNext]_vars

-----------------------------------------------------------------------------
(* The claims.                                                              *)

\* The refresh threads of object s that are running.
Tasks(s) == {t \in Tids : worker[t].self = s /\ Running(t)}

\* The listeners invoked for the reading thread t has in hand: per-id,
\* catch-all.
IdCalls(t) == SelectSeq(worker[t].calls, LAMBDA c : c.kind = "id")
AllCalls(t) == SelectSeq(worker[t].calls, LAMBDA c : c.kind = "all")

\* Thread t has dispatched a reading and is back at the head of the loop.
Dispatched(t) == worker[t].pc = "loop" /\ worker[t].sensor # None

\* C1: at most one refresh thread of an object runs at any time, and a
\* start_scan issued while one runs starts no thread and changes none of the
\* object's or the class's state.
C1_OneTask ==
    /\ [](\A s \in Sessions : Cardinality(Tasks(s)) <= 1)
    /\ [][\A s \in Sessions :
            (cpc = "idle" /\ cpc' = "start_scan" /\ cself' = s /\ Tasks(s) # {})
                => UNCHANGED svars]_vars

\* C1 witness: start_scan has returned at once while the thread runs.
C1_Witness ==
    /\ cpc = "start_scan" /\ carg = <<"return">>
    /\ Cardinality(Tasks(cself)) = 1

\* C2: a close() of a connected object whose refresh thread runs returns,
\* with the thread terminated.
C2_CloseReturns ==
    (/\ cpc = "join"
     /\ _socket[cself] = "open"
     /\ _thread[cself] # "None"
     /\ Running(_thread[cself]))
        ~> (cpc = "idle" /\ \A t \in Tids : ~Running(t))

\* The calls of register_callback among the first n that name sensor id sid.
RegsFor(sid, n) ==
    SelectSeq(SubSeq(regs, 1, n), LAMBDA r : r.sensorid = sid)

\* C3: when a reading has been dispatched, the listeners invoked for its
\* sensor id are listeners registered for that id, each once, in the order
\* of registration, each with the reading and its own user data, and they
\* include every listener registered before the reading was taken in hand.
C3_PerIdListeners ==
    \A t \in Tids :
        Dispatched(t) =>
            LET sensor == worker[t].sensor[1]
                before == RegsFor(sensor.sensorid, worker[t].nreg)
                all == RegsFor(sensor.sensorid, Len(regs))
                ids == IdCalls(t)
            IN  /\ Len(before) <= Len(ids)
                /\ Len(ids) <= Len(all)
                /\ \A i \in 1..Len(ids) :
                      /\ ids[i].cb = all[i].cb
                      /\ ids[i].ud = all[i].ud
                      /\ ids[i].sensor = sensor

\* C3 witness: two listeners of the reading's id were
\* registered before the reading, and the reading has been dispatched.
C3_Witness ==
    \E t \in Tids :
        /\ Dispatched(t)
        /\ Len(RegsFor(worker[t].sensor[1].sensorid, worker[t].nreg)) = 2
        /\ Len(IdCalls(t)) = 2

\* C4: when a reading has been dispatched, the catch-all listener was
\* invoked at most once, once if register_all had been called before the
\* reading was taken in hand, and the callback invoked is the one of the
\* latest register_all at the time the loop read the callee.
C4_CatchAll ==
    \A t \in Tids :
        Dispatched(t) =>
            LET alls == AllCalls(t)
                s == worker[t].self
            IN  /\ Len(alls) <= 1
                /\ worker[t].ninst > 0 => Len(alls) = 1
                /\ \A i \in 1..Len(alls) :
                      /\ alls[i].gen > 0
                      /\ alls[i].cb = installs[s][alls[i].gen]
                      /\ alls[i].sensor = worker[t].sensor[1]

\* C4 witness: register_all was called twice, the second time before the
\* reading was taken in hand, per-id listeners exist, and the reading has
\* been dispatched to the second catch-all.
C4_Witness ==
    \E t \in Tids :
        /\ Dispatched(t)
        /\ worker[t].ninst = 2
        /\ Len(AllCalls(t)) = 1
        /\ AllCalls(t)[1].cb = AllListener(2).cb

\* C5: once the connection is reset or closed by the gateway, a running
\* refresh thread terminates.
C5_LoopEndsOnFailure ==
    \A t \in Tids :
        (Running(t) /\ peer[worker[t].self] \in {"closed", "reset"})
            ~> Terminated(t)

\* C6: whenever get_info returns, the dict it returns has a name and a
\* version.
C6_InfoParsed ==
    cpc = "get_info_return" =>
        /\ cret[1].info.name # None
        /\ cret[1].info.version # None

\* The letter each set_ method puts after the value, by channel.
Letter(name, rfm) ==
    CASE name = "set_frequency" -> IF rfm = 1 THEN "f" ELSE "F"
      [] name = "set_datarate" -> IF rfm = 1 THEN "r" ELSE "R"
      [] name = "set_toggle_interval" -> IF rfm = 1 THEN "t" ELSE "T"
      [] name = "set_toggle_mask" -> IF rfm = 1 THEN "m" ELSE "M"

SetMethods ==
    {"set_frequency", "set_datarate", "set_toggle_interval", "set_toggle_mask"}

\* Text w is the decimal numeral of n, then the letter, then CR LF.
IsWireCommand(w, n, letter) ==
    /\ Len(w) >= 4
    /\ SubSeq(w, Len(w) - 1, Len(w)) = <<"\r", "\n">>
    /\ w[Len(w) - 2] = letter
    /\ LET digits == SubSeq(w, 1, Len(w) - 3) IN
          /\ \A i \in 1..Len(digits) : digits[i] \in DigitSet
          /\ Len(digits) = 1 \/ digits[1] # "0"
          /\ int(digits) = n

\* C7: a call of a set_ method with value n and channel 1 or 2 on a
\* connection that can be written appends exactly one element to what has
\* been written on it: the numeral of n, the method's letter in the case of
\* the channel, CR LF; nothing is written on another connection.
C7_WireCommands ==
    [][(/\ cpc = "idle" /\ cpc' = "command"
        /\ carg'[1] \in SetMethods
        /\ Writable(cself'))
          => /\ Len(sent'[cself']) = Len(sent[cself']) + 1
             /\ SubSeq(sent'[cself'], 1, Len(sent[cself'])) = sent[cself']
             /\ IsWireCommand(sent'[cself'][Len(sent'[cself'])], carg'[2],
                              Letter(carg'[1], carg'[3]))
             /\ \A s \in Sessions \ {cself'} : sent'[s] = sent[s]]_vars

\* C7 witness: set_frequency(868300, 1) and then set_frequency(868300, 2)
\* have written 868300f and 868300F.
C7_Witness ==
    /\ cpc = "command"
    /\ carg = <<"set_frequency", 868300, 2>>
    /\ sent[cself] = <<<<"8", "6", "8", "3", "0", "0", "f", "\r", "\n">>,
                       <<"8", "6", "8", "3", "0", "0", "F", "\r", "\n">>>>

\* The decoder's output is a reading: LaCrosseSensor accepted the line.
Accepted == pout # None /\ pout[1].fn = "LaCrosseSensor" /\ pout[1].reading # None

\* C8: for every line LaCrosseSensor accepts, ontime, totaltime and energy
\* are below 2^32 and power and maxpower are below 2^16.
C8_Ranges ==
    Accepted =>
        LET r == pout[1].reading[1] IN
        /\ r.ontime.hi < 65536
        /\ r.totaltime.hi < 65536
        /\ r.energy.hi < 65536
        /\ r.power < 65536
        /\ r.maxpower < 65536

\* The value of a text of upper-case hexadecimal digits.
RECURSIVE HexValue(_)
HexValue(h) ==
    IF h = <<>> THEN 0
    ELSE 16 * HexValue(SubSeq(h, 1, Len(h) - 1))
           + (CHOOSE v \in 0..15 : HexChars[v + 1] = h[Len(h)])

\* C9: for every line LaCrosseSensor accepts, sensorid is 4 upper-case
\* hexadecimal digits, the first two the value of field 1 and the last two
\* the value of field 2.
C9_SensorId ==
    Accepted =>
        LET id == pout[1].reading[1].sensorid
            field == split(pin, " ")
        IN  /\ Len(id) = 4
            /\ \A i \in 1..Len(id) : \E v \in 1..16 : HexChars[v] = id[i]
            /\ HexValue(SubSeq(id, 1, 2)) = int(field[3])
            /\ HexValue(SubSeq(id, 3, 4)) = int(field[4])

\* C10: in every dict _parse_info makes of a line that matches re_info,
\* either rfm1datarate is set and the two toggle fields are None, or the two
\* toggle fields are set and rfm1datarate is None.
C10_OneGroup ==
    (/\ pout # None
     /\ pout[1].fn = "_parse_info"
     /\ ~pout[1].raised
     /\ pout[1].info.name # None)
        => LET info == pout[1].info IN
           \/ /\ info.rfm1datarate # None
              /\ info.rfm1toggleinterval = None
              /\ info.rfm1togglemask = None
           \/ /\ info.rfm1datarate = None
              /\ info.rfm1toggleinterval # None
              /\ info.rfm1togglemask # None

\* The lines given to _parse_info that do not fit re_info or whose mode is
\* neither r:<value> nor t:<interval>~<mask>.
Unfit ==
    ReadingLines \cup {LineOld}
        \cup {InfoLine(mode) :
                 mode \in Modes \ {<<"r", ":", "8">>,
                                   <<"t", ":", "1", "0", "~", "3">>}}

\* C11: for every line that does not fit re_info, or whose mode is neither
\* 'r' nor 't', or is 'r' or 't' without a value, or 't' without '~',
\* _parse_info does not raise and returns the dict with every field None.
C11_NoMatch ==
    (pout # None /\ pout[1].fn = "_parse_info" /\ pin \in Unfit)
        => /\ ~pout[1].raised
           /\ pout[1].info = NoInfo

\* C12: the listeners invoked for a reading are the catch-all first and the
\* per-id listeners after it, and when a listener is invoked sensors already
\* maps the reading's id to the reading.
C12_StoreThenAllThenIds ==
    /\ [](\A t \in Tids : \A i \in 1..Len(worker[t].calls) :
            \A j \in 1..Len(worker[t].calls) :
               (worker[t].calls[i].kind = "all"
                    /\ worker[t].calls[j].kind = "id") => i < j)
    /\ [][\A t \in Tids :
            Len(worker'[t].calls) > Len(worker[t].calls)
                => LET call == worker'[t].calls[Len(worker'[t].calls)] IN
                   /\ call.sensor.sensorid \in DOMAIN sensors
                   /\ sensors[call.sensor.sensorid] = call.sensor
                   /\ call.sensor = worker[t].sensor[1]]_vars

\* C13: the step of the loop that finds its line is not a reading leaves
\* sensors, the registry and the catch-all slot as they are, invokes no
\* listener, and puts the thread back at the head of the loop.
C13_SkipsOtherLines ==
    [][\A t \in Tids :
          (/\ worker[t].pc = "match"
           /\ worker'[t].pc # "match"
           /\ re_reading(worker[t].line) = 0)
              => /\ UNCHANGED <<sensors, _registry, _callback, _callback_data>>
                 /\ worker'[t].calls = <<>>
                 /\ worker'[t].sensor = None
                 /\ worker'[t].pc = "loop"]_vars

\* C13 witness: the loop has read an info line after a reading was stored
\* and a listener registered, and is back at the head of the loop.
C13_Witness ==
    \E t \in Tids :
        /\ worker[t].pc = "loop"
        /\ worker[t].line = LineInfo
        /\ worker[t].sensor = None
        /\ sensors # <<>>
        /\ _registry # <<>>

\* C14: in no state is the caller's thread reading the socket in get_info
\* while the refresh thread of the same object runs.
C14_OneReader ==
    ~(/\ cpc = "get_info_recv"
      /\ \E t \in Tids : worker[t].self = cself /\ Running(t))

\* C15: every invocation of the catch-all passes a callback together with
\* the user data of the same register_all call, and the callback invoked is
\* the one the loop tested for presence.
C15_NoTornListener ==
    \A t \in Tids : \A i \in 1..Len(AllCalls(t)) :
        /\ \E k \in 1..(MaxRegs + 1) :
              /\ AllCalls(t)[i].cb = AllListener(k).cb
              /\ AllCalls(t)[i].ud = AllListener(k).ud
        /\ AllCalls(t)[i].cb = worker[t].tested

\* C16: every key of sensors is the id of the reading it maps to; a step
\* changes sensors only when the loop has decoded a telemetry line, and
\* then sensors maps the id of that line to the reading decoded from it and
\* every other id to what it mapped to before; no id ever leaves sensors.
C16_LatestReading ==
    /\ [](\A id \in DOMAIN sensors : sensors[id].sensorid = id)
    /\ [][/\ DOMAIN sensors \subseteq DOMAIN sensors'
          /\ \A t \in Tids :
                (worker[t].pc = "match" /\ worker'[t].pc # "match"
                     /\ re_reading(worker[t].line) # 0)
                    => LET reading == LaCrosseSensor(worker[t].line)[1] IN
                       /\ reading.sensorid \in DOMAIN sensors'
                       /\ sensors'[reading.sensorid] = reading
                       /\ \A id \in DOMAIN sensors \ {reading.sensorid} :
                             sensors'[id] = sensors[id]
          /\ sensors' # sensors
                => \E t \in Tids :
                      /\ worker[t].pc = "match" /\ worker'[t].pc # "match"
                      /\ re_reading(worker[t].line) # 0]_vars

\* C16 witness: the loop has processed two lines, the second a reading of a
\* sensor already in sensors with other values, and sensors maps the id to
\* the second reading.
C16_Witness ==
    \E t \in Tids :
        /\ Dispatched(t)
        /\ worker[t].line = LineC
        /\ nsegs[worker[t].self] = 2
        /\ wire[worker[t].self] = <<>>
        /\ sensors[SensorId(9, 248)] = LaCrosseSensor(LineC)[1]
        /\ sensors[SensorId(9, 248)] # LaCrosseSensor(LineA)[1]

\* C17: when close() of a connected object returns, the object holds no
\* thread.
C17_HandleCleared ==
    [][(cpc = "shut" /\ cpc' = "idle" /\ _socket[cself] = "open")
          => _thread'[cself] = "None"]_vars

\* C18: a per-id listener invoked by the thread of an object was registered
\* on that object, and the sensors of an object whose connection has
\* delivered nothing is empty.
C18_NoSharing ==
    /\ \A t \in Tids : \A i \in 1..Len(IdCalls(t)) :
          \E k \in 1..Len(regs) :
              /\ regs[k].cb = IdCalls(t)[i].cb
              /\ regs[k].self = worker[t].self
    /\ \A s \in live : nsegs[s] = 0 => SensorsOf(s) = <<>>

\* C19: a read of the loop on a connection with data takes exactly the
\* first line of the stream, whole, and leaves the lines after it unread.
C19_OneLinePerRead ==
    [][\A t \in Tids :
          (/\ worker[t].pc = "recv" /\ worker'[t].pc = "match"
           /\ wire[worker[t].self] # <<>>)
              => /\ worker'[t].line = Decoded(Head(wire[worker[t].self]))
                 /\ wire'[worker[t].self] = Tail(wire[worker[t].self])]_vars

\* C20: the thread ends normally only at the while test, and the while test
\* with the stop event set ends it; while the stop event is set the loop
\* completes at most one read and takes at most one reading in hand.
C20_StopAtLoopHead ==
    /\ [](\A t \in Tids : worker[t].lreads <= 1 /\ worker[t].ldisp <= 1)
    /\ [][\A t \in Tids :
            /\ (worker'[t].pc = "done" /\ worker[t].pc # "done")
                   => (worker[t].pc = "loop"
                          /\ _stopevent[worker[t].self] = "set")
            /\ (worker[t].pc = "loop" /\ worker'[t].pc # "loop"
                   /\ _stopevent[worker[t].self] = "set")
                   => worker'[t].pc = "done"]_vars

\* C20 witness: close() set the stop event while the thread waited in recv;
\* the thread has read one more line, taken the reading in it in hand, and
\* ended at the while test.
C20_Witness ==
    \E t \in Tids :
        /\ worker[t].pc = "done"
        /\ worker[t].lreads = 1
        /\ worker[t].ldisp = 1
        /\ cpc = "join"

=============================================================================
